---- MODULE Spec2Model ----
(***************************************************************************)
(* Model of airflow/auth/managers/simple/simple_auth_manager.py:           *)
(*   - the role enumeration SimpleAuthManagerRole,                         *)
(*   - the decision function SimpleAuthManager._is_authorized and the     *)
(*     public is_authorized_<kind> methods built on it,                    *)
(*   - the credential bootstrap SimpleAuthManager.init,                    *)
(*   - the secret generator SimpleAuthManager._generate_password.          *)
(* Role names and secrets are sequences of one-character strings, and the  *)
(* text of the password file is a sequence of JSON tokens, so that         *)
(* upper-casing, enum lookup by name, json.dumps / json.loads and a        *)
(* cut-off write are computed and not assumed.  Usernames and method       *)
(* names, which the code only compares for equality, are atomic strings.   *)
(***************************************************************************)
EXTENDS Integers, Sequences, FiniteSets, TLC

VARIABLES
    session,     \* flask session: the logged-in user, or None when "user" is not a key
    all_admins,  \* conf [core] simple_auth_manager_all_admins
    call,        \* the last authorization call: its name and arguments
    outcome,     \* what that call did: return value, exception, statements executed
    file,        \* the generated-password file: whether it exists, and its text
    conf_users,  \* conf [core] simple_auth_manager_users, each entry split at ":"
    passwords,   \* self.passwords, a dict in insertion order
    from_file,   \* init's local user_passwords_from_file
    printed,     \* the lines init has printed: (username, password)
    pc,          \* where init stands
    exc,         \* the exception that ended init, "" when none
    runs,        \* the number of process starts so far
    old_file,    \* the file as it was when the current run of init began
    first,       \* self.passwords at the end of the first successful init
    always,      \* the usernames configured in every successful init so far
    prev,        \* the last successful init before the current run: its users,
                 \* its passwords and the text it wrote
    secret       \* the last value _generate_password returned on its own

authVars == <<session, all_admins, call, outcome>>

initVars == <<file, conf_users, passwords, from_file, printed, pc, exc, runs,
              old_file, first, always, prev>>

vars == <<session, all_admins, call, outcome, file, conf_users, passwords,
          from_file, printed, pc, exc, runs, old_file, first, always, prev, secret>>

\* Python's None.  Optional values are records, so that None compares with them.
None == [none |-> TRUE]

\* A Python str object (where None may stand in its place): its characters.
Str(chars) == [str |-> chars]

\* A Python bool object (where None may stand in its place).
Bool(b) == [bool |-> b]

Range(s) == {s[i] : i \in DOMAIN s}

----------------------------------------------------------------------------
(* str.upper, restricted to ASCII letters; every other character is kept. *)

ascii_lowercase ==
    <<"a","b","c","d","e","f","g","h","i","j","k","l","m",
      "n","o","p","q","r","s","t","u","v","w","x","y","z">>

ascii_uppercase ==
    <<"A","B","C","D","E","F","G","H","I","J","K","L","M",
      "N","O","P","Q","R","S","T","U","V","W","X","Y","Z">>

UpperChar(c) ==
    IF \E i \in DOMAIN ascii_lowercase : ascii_lowercase[i] = c
    THEN ascii_uppercase[CHOOSE i \in DOMAIN ascii_lowercase : ascii_lowercase[i] = c]
    ELSE c

\* A conversion that forgets to change case.
upper_unchanged(s) == s

upper(s) == [i \in DOMAIN s |-> UpperChar(s[i])]

----------------------------------------------------------------------------
(* class SimpleAuthManagerRole(namedtuple("SimpleAuthManagerRole",         *)
(* "name order"), Enum): each member is the tuple (name, order).           *)

VIEWER == [name |-> <<"V","I","E","W","E","R">>, order |-> 0]

USER == [name |-> <<"U","S","E","R">>, order |-> 1]

OP == [name |-> <<"O","P">>, order |-> 2]

ADMIN == [name |-> <<"A","D","M","I","N">>, order |-> 3]

SimpleAuthManagerRole == {VIEWER, USER, OP, ADMIN}

\* SimpleAuthManagerRole[role_str]: lookup by member name; KeyError when
\* there is no member of that name.
KeyError == [exc |-> "KeyError"]

RoleGetItem(role_str) ==
    IF \E m \in SimpleAuthManagerRole : m.name = role_str
    THEN CHOOSE m \in SimpleAuthManagerRole : m.name = role_str
    ELSE KeyError

\* Truth value of a member: it is a tuple of two fields, and a tuple is
\* false only when it is empty.  None is false.
RoleTruthyByOrder(r) == r # None /\ r.order # 0

RoleTruthy(r) == r # None /\ Cardinality(DOMAIN r) # 0

----------------------------------------------------------------------------
(* SimpleAuthManagerUser (airflow/auth/managers/simple/user.py).           *)

get_role(user) == user.role

\* is_logged_in: "user" in session or all_admins
is_logged_in(sess, allAdmins) == sess # None \/ allAdmins

get_user_no_login_check(sess, allAdmins) ==
    IF allAdmins \/ sess = None
    THEN [username |-> "anonymous", role |-> Str(<<"a","d","m","i","n">>)]
    ELSE sess

get_user(sess, allAdmins) ==
    IF ~is_logged_in(sess, allAdmins) THEN None
    ELSE IF allAdmins
         THEN [username |-> "anonymous", role |-> Str(<<"a","d","m","i","n">>)]
         ELSE sess

----------------------------------------------------------------------------
(* _is_authorized.  The result records the value returned (None when an   *)
(* exception left the function), the exception, and the source lines of   *)
(* the statements executed, in order.                                      *)

Returned(v, path) == [ret |-> Bool(v), exc |-> None, path |-> path]

Raised(e, path) == [ret |-> None, exc |-> e, path |-> path]

_is_authorized(method, allow_role, allow_get_role, user, sess, allAdmins) ==
    LET u == IF user # None THEN user ELSE get_user(sess, allAdmins)      \* 261
    IN
    IF u = None THEN Returned(FALSE, <<261, 262, 263>>)
    ELSE
    LET user_role == get_role(u)                                          \* 265
    IN
    IF user_role = None \/ user_role.str = <<>>                           \* 266
    THEN Returned(FALSE, <<261, 262, 265, 266, 267>>)
    ELSE
    LET role_str == upper(user_role.str)                                     \* 269
        role == RoleGetItem(role_str)                                     \* 270
    IN
    IF role = KeyError THEN Raised(KeyError, <<261, 262, 265, 266, 269, 270>>)
    ELSE IF role = ADMIN
    THEN Returned(TRUE, <<261, 262, 265, 266, 269, 270, 271, 272>>)
    ELSE
    LET get_role_used == IF ~RoleTruthy(allow_get_role)                   \* 274
                         THEN allow_role ELSE allow_get_role
    IN
    IF method = "GET"
    THEN Returned(role.order >= get_role_used.order,
                  <<261, 262, 265, 266, 269, 270, 271, 274, 277, 278>>)
    ELSE Returned(role.order >= allow_role.order,
                  <<261, 262, 265, 266, 269, 270, 271, 274, 277, 279>>)

----------------------------------------------------------------------------
(* The public checks.  details / access_entity / access_view / resource_name *)
(* are not read by any of them and are left out.                           *)

is_authorized_configuration(method, user, sess, allAdmins) ==
    _is_authorized(method, OP, None, user, sess, allAdmins)

is_authorized_connection(method, user, sess, allAdmins) ==
    _is_authorized(method, OP, None, user, sess, allAdmins)

is_authorized_dag(method, user, sess, allAdmins) ==
    _is_authorized(method, USER, VIEWER, user, sess, allAdmins)

is_authorized_asset(method, user, sess, allAdmins) ==
    _is_authorized(method, OP, VIEWER, user, sess, allAdmins)

\* The pool check with the read minimum forgotten.
is_authorized_pool_no_get_role(method, user, sess, allAdmins) ==
    _is_authorized(method, OP, None, user, sess, allAdmins)

is_authorized_pool(method, user, sess, allAdmins) ==
    _is_authorized(method, OP, VIEWER, user, sess, allAdmins)

is_authorized_variable(method, user, sess, allAdmins) ==
    _is_authorized(method, OP, None, user, sess, allAdmins)

is_authorized_view(user, sess, allAdmins) ==
    _is_authorized("GET", VIEWER, None, user, sess, allAdmins)

\* The method argument is not passed on: "GET" is.
is_authorized_custom_view(method, user, sess, allAdmins) ==
    _is_authorized("GET", VIEWER, None, user, sess, allAdmins)

----------------------------------------------------------------------------
(* _generate_password: "".join(random.choices(ALPHABET, k=16)).            *)
(* random.choices(population, k) is [population[floor(random() * n)] for   *)
(* each of the k draws].  The random stream is a function of the state of  *)
(* the generator (seed): draw i yields RandomDraw(seed, i) / RandRes, a    *)
(* fraction in [0, 1).                                                     *)

\* The resolution of the modelled random(): its values are r / RandRes.
RandRes == 128

Seeds == 0 .. (RandRes - 1)

RandomDraw(seed, i) == (seed + i * (seed + 1) * 41 + i * i * 7) % RandRes

choices(population, k, seed) ==
    [i \in 1 .. k |->
        population[((RandomDraw(seed, i - 1) * Len(population)) \div RandRes) + 1]]

\* An alphabet that leaves out only i, l, o, I, L, O.
PasswordAlphabetWithJ ==
    <<"a","b","c","d","e","f","g","h","j","k","m","n","p","q","r","s","t","u","v",
      "w","x","y","z",
      "A","B","C","D","E","F","G","H","J","K","M","N","P","Q","R","S","T","U","V",
      "W","X","Y","Z",
      "2","3","4","5","6","7","8","9">>

\* The literal of line 283.
PasswordAlphabet ==
    <<"a","b","c","d","e","f","g","h","k","m","n","p","q","r","s","t","u","v",
      "w","x","y","z",
      "A","B","C","D","E","F","G","H","K","M","N","P","Q","R","S","T","U","V",
      "W","X","Y","Z",
      "2","3","4","5","6","7","8","9">>

_generate_password(seed) == choices(PasswordAlphabet, 16, seed)

----------------------------------------------------------------------------
(* Python dicts keep insertion order: a dict is a sequence of entries      *)
(* [k, v] with distinct keys.                                              *)

DictKeys(d) == {d[i].k : i \in DOMAIN d}

DictGet(d, key) == d[CHOOSE i \in DOMAIN d : d[i].k = key].v

\* d[key] = value: an existing key keeps its place.
DictSet(d, key, value) ==
    IF key \in DictKeys(d)
    THEN [i \in DOMAIN d |-> IF d[i].k = key THEN [k |-> key, v |-> value] ELSE d[i]]
    ELSE Append(d, [k |-> key, v |-> value])

----------------------------------------------------------------------------
(* JSON text is a sequence of tokens: braces, brackets, whitespace, and    *)
(* "key": value members (with their separators).                           *)

LBRACE == [t |-> "{"]

RBRACE == [t |-> "}"]

LBRACKET == [t |-> "["]

RBRACKET == [t |-> "]"]

WS == [t |-> " "]

Member(key, value) == [t |-> "member", k |-> key, v |-> value]

\* str.strip: leading and trailing whitespace removed.
RECURSIVE lstrip(_)
lstrip(text) ==
    IF text # <<>> /\ Head(text) = WS THEN lstrip(Tail(text)) ELSE text

RECURSIVE rstrip(_)
rstrip(text) ==
    IF text # <<>> /\ text[Len(text)] = WS
    THEN rstrip(SubSeq(text, 1, Len(text) - 1))
    ELSE text

strip(text) == rstrip(lstrip(text))

\* json.dumps of a dict of strings.
json_dumps(d) ==
    <<LBRACE>> \o [i \in DOMAIN d |-> Member(d[i].k, d[i].v)] \o <<RBRACE>>

\* The dict an object's members build: a repeated key keeps its first place
\* and its last value.
RECURSIVE ObjectOf(_, _)
ObjectOf(members, d) ==
    IF members = <<>> THEN d
    ELSE ObjectOf(Tail(members), DictSet(d, Head(members).k, Head(members).v))

RECURSIVE DropWhitespace(_)
DropWhitespace(text) ==
    IF text = <<>> THEN <<>>
    ELSE IF Head(text) = WS THEN DropWhitespace(Tail(text))
    ELSE <<Head(text)>> \o DropWhitespace(Tail(text))

JSONDecodeError == [kind |-> "JSONDecodeError"]

\* json.loads: an object gives a dict, [] gives a list, anything else
\* (the empty text and a cut-off object among them) raises JSONDecodeError.
\* Whitespace between tokens is skipped.
json_loads_lenient(text) ==
    LET toks == DropWhitespace(text)
        n == Len(toks)
    IN  IF /\ n >= 2 /\ toks[1] = LBRACE /\ toks[n] = RBRACE
           /\ \A i \in 2 .. (n - 1) : toks[i].t = "member"
        THEN [kind |-> "dict", items |-> ObjectOf(SubSeq(toks, 2, n - 1), <<>>)]
        ELSE IF toks = <<LBRACKET, RBRACKET>>
        THEN [kind |-> "list"]
        ELSE [kind |-> "dict", items |-> <<>>]

json_loads(text) ==
    LET toks == DropWhitespace(text)
        n == Len(toks)
    IN  IF /\ n >= 2 /\ toks[1] = LBRACE /\ toks[n] = RBRACE
           /\ \A i \in 2 .. (n - 1) : toks[i].t = "member"
        THEN [kind |-> "dict", items |-> ObjectOf(SubSeq(toks, 2, n - 1), <<>>)]
        ELSE IF toks = <<LBRACKET, RBRACKET>>
        THEN [kind |-> "list"]
        ELSE JSONDecodeError

----------------------------------------------------------------------------
(* init, statement by statement.                                           *)

\* get_users: one {"username", "role"} dict per configured "username:role";
\* conf holds the entries already split at ":" into two parts.
get_users(conf) ==
    [i \in DOMAIN conf |-> [username |-> conf[i][1], role |-> conf[i][2]]]

\* Lines 111-115 with the filter left out.
CarriedForwardUnfiltered(loaded, usernames) == loaded

\* Lines 111-115: the entries of the file whose username is configured.
CarriedForward(loaded, usernames) ==
    LET Configured(e) == e.k \in usernames
    IN  SelectSeq(loaded, Configured)

\* Lines 116-119 with the membership test left out: every user gets a new secret.
RECURSIVE FillAlways(_, _, _, _)
FillAlways(users, i, pw, seeds) ==
    IF i > Len(users) THEN pw
    ELSE FillAlways(users, i + 1,
                    DictSet(pw, users[i].username, Str(_generate_password(seeds[i]))),
                    seeds)

\* Lines 116-119: from user i on, a user without an entry gets a generated
\* secret; seeds[i] is the state of the random generator at user i.
RECURSIVE Fill(_, _, _, _)
Fill(users, i, pw, seeds) ==
    IF i > Len(users) THEN pw
    ELSE IF users[i].username \notin DictKeys(pw)
    THEN Fill(users, i + 1,
              DictSet(pw, users[i].username, Str(_generate_password(seeds[i]))),
              seeds)
    ELSE Fill(users, i + 1, pw, seeds)

----------------------------------------------------------------------------
(* The authorization state machine: the session and the configuration flag *)
(* are the state the checks read; every public check, and _is_authorized   *)
(* itself with an arbitrary policy, is an operation.                        *)

Methods == {"GET", "POST", "DELETE"}

RoleStrings ==
    { <<"a","d","m","i","n">>, <<"A","d","m","i","n">>,
      <<"v","i","e","w","e","r">>, <<"U","s","e","r">>, <<"O","P">>,
      <<"g","u","e","s","t">>, <<"a","d","m","i","n"," ">>, <<>> }

\* The users a session may hold.
SessionRoleStrings ==
    { <<"a","d","m","i","n">>, <<"v","i","e","w","e","r">>, <<"g","u","e","s","t">> }

SessionUsers == {[username |-> "alice", role |-> Str(s)] : s \in SessionRoleStrings}

Users == {[username |-> "bob", role |-> r] : r \in {Str(s) : s \in RoleStrings} \cup {None}}

MaybeUser == Users \cup {None}

Invocation(fn, method, allow_role, allow_get_role, user) ==
    [fn |-> fn, method |-> method, allow_role |-> allow_role,
     allow_get_role |-> allow_get_role, user |-> user]

\* No call made in the current session yet.
NoCall == Invocation("", "", None, None, None)

NoOutcome == [ret |-> None, exc |-> None, path |-> <<>>]

\* No authorization call is in play.
AuthIdle ==
    /\ session = None
    /\ all_admins = FALSE
    /\ call = NoCall
    /\ outcome = NoOutcome

\* init is not in play.
BootIdle ==
    /\ file = [exists |-> FALSE, text |-> <<>>]
    /\ conf_users = <<>>
    /\ passwords = <<>>
    /\ from_file = [kind |-> "dict", items |-> <<>>]
    /\ printed = <<>>
    /\ pc = "idle"
    /\ exc = ""
    /\ runs = 0
    /\ old_file = file
    /\ first = [set |-> FALSE, passwords |-> <<>>]
    /\ always = {}
    /\ prev = [set |-> FALSE, users |-> <<>>, passwords |-> <<>>, text |-> <<>>]

AuthInit ==
    /\ session \in SessionUsers \cup {None}
    /\ all_admins \in BOOLEAN
    /\ call = NoCall
    /\ outcome = NoOutcome
    /\ BootIdle
    /\ secret = <<>>

\* The login view stores the user in the session.  call and outcome describe
\* the last call of the current session, so they start afresh.
Login ==
    /\ \E u \in SessionUsers : session' = u
    /\ call' = NoCall
    /\ outcome' = NoOutcome
    /\ UNCHANGED <<all_admins, secret>>
    /\ UNCHANGED initVars

\* The logout view clears the session.
Logout ==
    /\ session # None
    /\ session' = None
    /\ call' = NoCall
    /\ outcome' = NoOutcome
    /\ UNCHANGED <<all_admins, secret>>
    /\ UNCHANGED initVars

Call_is_authorized ==
    \E method \in Methods, allow_role \in SimpleAuthManagerRole,
       allow_get_role \in SimpleAuthManagerRole \cup {None}, user \in MaybeUser :
        /\ call' = Invocation("_is_authorized", method, allow_role, allow_get_role, user)
        /\ outcome' = _is_authorized(method, allow_role, allow_get_role, user,
                                     session, all_admins)
        /\ UNCHANGED <<session, all_admins, secret>>
        /\ UNCHANGED initVars

CallConfiguration ==
    \E method \in Methods, user \in MaybeUser :
        /\ call' = Invocation("is_authorized_configuration", method, None, None, user)
        /\ outcome' = is_authorized_configuration(method, user, session, all_admins)
        /\ UNCHANGED <<session, all_admins, secret>>
        /\ UNCHANGED initVars

CallConnection ==
    \E method \in Methods, user \in MaybeUser :
        /\ call' = Invocation("is_authorized_connection", method, None, None, user)
        /\ outcome' = is_authorized_connection(method, user, session, all_admins)
        /\ UNCHANGED <<session, all_admins, secret>>
        /\ UNCHANGED initVars

CallDag ==
    \E method \in Methods, user \in MaybeUser :
        /\ call' = Invocation("is_authorized_dag", method, None, None, user)
        /\ outcome' = is_authorized_dag(method, user, session, all_admins)
        /\ UNCHANGED <<session, all_admins, secret>>
        /\ UNCHANGED initVars

CallAsset ==
    \E method \in Methods, user \in MaybeUser :
        /\ call' = Invocation("is_authorized_asset", method, None, None, user)
        /\ outcome' = is_authorized_asset(method, user, session, all_admins)
        /\ UNCHANGED <<session, all_admins, secret>>
        /\ UNCHANGED initVars

CallPool ==
    \E method \in Methods, user \in MaybeUser :
        /\ call' = Invocation("is_authorized_pool", method, None, None, user)
        /\ outcome' = is_authorized_pool(method, user, session, all_admins)
        /\ UNCHANGED <<session, all_admins, secret>>
        /\ UNCHANGED initVars

CallVariable ==
    \E method \in Methods, user \in MaybeUser :
        /\ call' = Invocation("is_authorized_variable", method, None, None, user)
        /\ outcome' = is_authorized_variable(method, user, session, all_admins)
        /\ UNCHANGED <<session, all_admins, secret>>
        /\ UNCHANGED initVars

\* is_authorized_view has no method parameter.
CallView ==
    \E user \in MaybeUser :
        /\ call' = Invocation("is_authorized_view", "", None, None, user)
        /\ outcome' = is_authorized_view(user, session, all_admins)
        /\ UNCHANGED <<session, all_admins, secret>>
        /\ UNCHANGED initVars

CallCustomView ==
    \E method \in Methods, user \in MaybeUser :
        /\ call' = Invocation("is_authorized_custom_view", method, None, None, user)
        /\ outcome' = is_authorized_custom_view(method, user, session, all_admins)
        /\ UNCHANGED <<session, all_admins, secret>>
        /\ UNCHANGED initVars

AuthNext ==
    \/ Login
    \/ Logout
    \/ Call_is_authorized
    \/ CallConfiguration
    \/ CallConnection
    \/ CallDag
    \/ CallAsset
    \/ CallPool
    \/ CallVariable
    \/ CallView
    \/ CallCustomView

AuthSpec == AuthInit /\ [][AuthNext]_vars

----------------------------------------------------------------------------
(* The secret generator on its own.                                        *)

GenInit ==
    /\ secret = <<>>
    /\ AuthIdle
    /\ BootIdle

Generate ==
    /\ \E seed \in Seeds : secret' = _generate_password(seed)
    /\ UNCHANGED authVars
    /\ UNCHANGED initVars

GenNext == Generate

GenSpec == GenInit /\ [][GenNext]_vars

----------------------------------------------------------------------------
(* The bootstrap state machine: init runs once per process start, on the   *)
(* file the previous processes left.                                       *)

\* Process starts in a behaviour.
MaxRuns == 3

\* Entries in the configured-user list.
MaxUsers == 2

\* Members in the text of the file found at the first start.
MaxFileMembers == 2

\* Generator states init may find at a call of _generate_password: 0 .. MaxBootSeed.
MaxBootSeed == 1

BootSeeds == 0 .. MaxBootSeed

ConfEntries == {<<"alice", "admin">>, <<"carol", "user">>}

Confs == UNION {[1 .. n -> ConfEntries] : n \in 0 .. MaxUsers}

FileMembers ==
    {Member(k, Str(v)) : k \in {"alice", "bob"}, v \in {<<"X">>, <<"Y">>}}

WellFormedTexts ==
    {<<LBRACE>> \o b \o <<RBRACE>> :
        b \in UNION {[1 .. n -> FileMembers] : n \in 0 .. MaxFileMembers}}

PaddedTexts ==
    { <<WS, LBRACE, RBRACE, WS>>,
      <<LBRACE, WS, Member("alice", Str(<<"X">>)), RBRACE, WS>> }

CutOffTexts ==
    {SubSeq(t, 1, n) : t \in {w \in WellFormedTexts : Len(w) <= 3}, n \in 0 .. 2}

InitialFiles ==
    {[exists |-> FALSE, text |-> <<>>]}
        \cup {[exists |-> TRUE, text |-> t] :
                t \in WellFormedTexts \cup PaddedTexts \cup CutOffTexts
                        \cup {<<LBRACKET, RBRACKET>>}}

EmptyDict == [kind |-> "dict", items |-> <<>>]

BootInit ==
    /\ file \in InitialFiles
    /\ conf_users \in Confs
    /\ passwords = <<>>
    /\ from_file = EmptyDict
    /\ printed = <<>>
    /\ pc = "start"
    /\ exc = ""
    /\ runs = 1
    /\ old_file = file
    /\ first = [set |-> FALSE, passwords |-> <<>>]
    /\ always = {e[1] : e \in ConfEntries}
    /\ prev = [set |-> FALSE, users |-> <<>>, passwords |-> <<>>, text |-> <<>>]
    /\ secret = <<>>
    /\ AuthIdle

\* Lines 101-107: the file, when there is one, is read, stripped and parsed.
ReadFile ==
    /\ pc = "start"
    /\ LET loaded == IF file.exists THEN json_loads(strip(file.text)) ELSE EmptyDict
       IN  IF loaded = JSONDecodeError
           THEN /\ pc' = "failed"
                /\ exc' = "JSONDecodeError"
                /\ UNCHANGED from_file
           ELSE /\ pc' = "reconcile"
                /\ from_file' = loaded
                /\ UNCHANGED exc
    /\ UNCHANGED <<file, conf_users, passwords, printed, runs, old_file,
                   first, always, prev, secret>>
    /\ UNCHANGED authVars

\* Lines 109-121: the entries of configured users are carried forward, the
\* missing ones generated, and one line printed per configured user.
\* A parsed value that is no dict has no items(): AttributeError.
Reconcile ==
    /\ pc = "reconcile"
    /\ IF from_file.kind # "dict"
       THEN /\ pc' = "failed"
            /\ exc' = "AttributeError"
            /\ UNCHANGED <<passwords, printed>>
       ELSE LET users == get_users(conf_users)
                usernames == {users[i].username : i \in DOMAIN users}
            IN  \E seeds \in [DOMAIN users -> BootSeeds] :
                    LET pw == Fill(users, 1,
                                   CarriedForward(from_file.items, usernames), seeds)
                    IN  /\ passwords' = pw
                        /\ printed' = [i \in DOMAIN users |->
                                          <<users[i].username,
                                            DictGet(pw, users[i].username)>>]
                        /\ pc' = "open"
                        /\ UNCHANGED exc
    /\ UNCHANGED <<file, conf_users, from_file, runs, old_file,
                   first, always, prev, secret>>
    /\ UNCHANGED authVars

\* Line 123: open(..., "w") creates the file or cuts it to length 0.
OpenForWrite ==
    /\ pc = "open"
    /\ file' = [exists |-> TRUE, text |-> <<>>]
    /\ pc' = "write"
    /\ UNCHANGED <<conf_users, passwords, from_file, printed, exc, runs, old_file,
                   first, always, prev, secret>>
    /\ UNCHANGED authVars

\* Line 123 raising OSError (no permission, no directory): nothing is touched.
OpenFails ==
    /\ pc = "open"
    /\ pc' = "failed"
    /\ exc' = "OSError"
    /\ UNCHANGED <<file, conf_users, passwords, from_file, printed, runs, old_file,
                   first, always, prev, secret>>
    /\ UNCHANGED authVars

\* Line 124 and the close of the with block: the whole text is written.
WriteFile ==
    /\ pc = "write"
    /\ file' = [exists |-> TRUE, text |-> json_dumps(passwords)]
    /\ pc' = "done"
    /\ first' = IF first.set THEN first ELSE [set |-> TRUE, passwords |-> passwords]
    /\ always' = always \cap {conf_users[i][1] : i \in DOMAIN conf_users}
    /\ UNCHANGED <<conf_users, passwords, from_file, printed, exc, runs, old_file,
                   prev, secret>>
    /\ UNCHANGED authVars

\* Line 124 or the close raising OSError (disk full, I/O error): only the
\* first n tokens of the text have reached the file.
WriteFails ==
    /\ pc = "write"
    /\ \E n \in 0 .. (Len(json_dumps(passwords)) - 1) :
          file' = [exists |-> TRUE, text |-> SubSeq(json_dumps(passwords), 1, n)]
    /\ pc' = "failed"
    /\ exc' = "OSError"
    /\ UNCHANGED <<conf_users, passwords, from_file, printed, runs, old_file,
                   first, always, prev, secret>>
    /\ UNCHANGED authVars

\* The next process start, with whatever user list is configured then; a new
\* SimpleAuthManager has the class attribute passwords = {}.
Restart ==
    /\ pc \in {"done", "failed"}
    /\ runs < MaxRuns
    /\ \E c \in Confs : conf_users' = c
    /\ passwords' = <<>>
    /\ from_file' = EmptyDict
    /\ printed' = <<>>
    /\ pc' = "start"
    /\ exc' = ""
    /\ runs' = runs + 1
    /\ old_file' = file
    /\ prev' = IF pc = "done"
               THEN [set |-> TRUE, users |-> get_users(conf_users),
                     passwords |-> passwords, text |-> file.text]
               ELSE prev
    /\ UNCHANGED <<file, first, always, secret>>
    /\ UNCHANGED authVars

BootNext ==
    \/ ReadFile
    \/ Reconcile
    \/ OpenForWrite
    \/ OpenFails
    \/ WriteFile
    \/ WriteFails
    \/ Restart

Spec == BootInit /\ [][BootNext]_vars

----------------------------------------------------------------------------
(* Properties of the authorization checks.                                 *)

\* The identity a call decides about: the user passed, else the current one.
Caller ==
    IF call.user # None THEN call.user
    ELSE IF all_admins THEN [username |-> "anonymous", role |-> Str(<<"a","d","m","i","n">>)]
    ELSE session

Called == call.fn # ""

\* Two strings equal up to the case of their ASCII letters.
SameIgnoringCase(a, b) ==
    /\ Len(a) = Len(b)
    /\ \A i \in DOMAIN a :
          \/ a[i] = b[i]
          \/ \E k \in DOMAIN ascii_lowercase :
                {a[i], b[i]} = {ascii_lowercase[k], ascii_uppercase[k]}

HasRoleName == Caller # None /\ Caller.role # None /\ Caller.role.str # <<>>

ResolvesTo(m) == HasRoleName /\ SameIgnoringCase(Caller.role.str, m.name)

Resolves == \E m \in SimpleAuthManagerRole : ResolvesTo(m)

CallerRole == CHOOSE m \in SimpleAuthManagerRole : ResolvesTo(m)

Compared == \E i \in DOMAIN outcome.path : outcome.path[i] \in {278, 279}

LookedUp == \E i \in DOMAIN outcome.path : outcome.path[i] = 270

\* C1: a caller whose non-empty role name matches no role, whatever the
\* method and the policy, is denied (False is returned) and no exception
\* leaves _is_authorized.
C1_UnknownRoleIsDenied ==
    (Called /\ HasRoleName /\ ~Resolves)
        => (outcome.ret = Bool(FALSE) /\ outcome.exc = None)

\* C2: a caller whose role name is ADMIN in any letter case is allowed for
\* every method and every policy, and no comparison of orders (line 278 or
\* 279) is executed on the way.
C2_AdminAlwaysAllowed ==
    (Called /\ ResolvesTo(ADMIN))
        => (outcome.ret = Bool(TRUE) /\ outcome.exc = None /\ ~Compared)

C2_Witness ==
    /\ call.fn = "_is_authorized"
    /\ call.user # None /\ call.user.role = Str(<<"A","d","m","i","n">>)
    /\ call.method = "DELETE" /\ call.allow_role = ADMIN /\ call.allow_get_role = OP
    /\ outcome.ret = Bool(TRUE)

\* C3: with no user passed, nobody logged in and the all-admins flag off,
\* every check returns False, raises nothing and never reaches the role
\* lookup of line 270.
C3_NobodyIsDenied ==
    (Called /\ call.user = None /\ session = None /\ ~all_admins)
        => (outcome.ret = Bool(FALSE) /\ outcome.exc = None /\ ~LookedUp)

C3_Witness ==
    /\ call.fn = "is_authorized_dag" /\ call.method = "GET"
    /\ call.user = None /\ session = None /\ ~all_admins
    /\ outcome.ret = Bool(FALSE)

\* The minimum role that applies (spec 4.2, step 4).
EffectiveMinimum(method, general, read) ==
    IF method = "GET" /\ read # None THEN read ELSE general

\* C4: for a caller whose role resolves to VIEWER, USER or OP, _is_authorized
\* returns True iff the role's order is at least the order of the effective
\* minimum; with general minimum OP and read minimum VIEWER, VIEWER and USER
\* are allowed on GET only and OP on every method.
C4_RankComparison ==
    (call.fn = "_is_authorized" /\ Resolves /\ CallerRole # ADMIN)
        => /\ outcome.exc = None
           /\ outcome.ret =
                 Bool(CallerRole.order >=
                      EffectiveMinimum(call.method, call.allow_role,
                                       call.allow_get_role).order)
           /\ (call.allow_role = OP /\ call.allow_get_role = VIEWER)
                 => outcome.ret =
                      Bool(IF CallerRole = OP THEN TRUE ELSE call.method = "GET")

C4_Witness ==
    /\ call.fn = "_is_authorized" /\ call.method = "GET"
    /\ call.allow_role = OP /\ call.allow_get_role = VIEWER
    /\ call.user # None /\ call.user.role = Str(<<"v","i","e","w","e","r">>)
    /\ outcome.ret = Bool(TRUE)

\* The policy table of spec 4.2: general minimum, read-only minimum.
PolicyTable ==
    [is_authorized_configuration |-> <<OP, None>>,
     is_authorized_connection    |-> <<OP, None>>,
     is_authorized_variable      |-> <<OP, None>>,
     is_authorized_pool          |-> <<OP, VIEWER>>,
     is_authorized_asset         |-> <<OP, VIEWER>>,
     is_authorized_dag           |-> <<USER, VIEWER>>,
     is_authorized_view          |-> <<VIEWER, VIEWER>>,
     is_authorized_custom_view   |-> <<VIEWER, VIEWER>>]

\* The verdict of the decision algorithm (spec 4.2, steps 3 to 5).
Verdict(role, method, general, read) ==
    \/ role = ADMIN
    \/ role.order >= EffectiveMinimum(method, general, read).order

\* C5: for a caller with a resolved role, each public check returns what the
\* decision algorithm gives for its row of the policy table; the two view
\* checks allow every resolved role whatever the method.
C5_PolicyTable ==
    (call.fn \in DOMAIN PolicyTable /\ Resolves)
        => /\ outcome.exc = None
           /\ outcome.ret =
                 Bool(Verdict(CallerRole, call.method,
                              PolicyTable[call.fn][1], PolicyTable[call.fn][2]))
           /\ call.fn \in {"is_authorized_view", "is_authorized_custom_view"}
                 => outcome.ret = Bool(TRUE)

C5_Witness ==
    /\ call.fn = "is_authorized_pool" /\ call.method = "GET"
    /\ call.user # None /\ call.user.role = Str(<<"U","s","e","r">>)
    /\ outcome.ret = Bool(TRUE)

----------------------------------------------------------------------------
(* Properties of the bootstrap.                                            *)

ConfiguredUsernames == {conf_users[i][1] : i \in DOMAIN conf_users}

\* What a file's text holds, read off the text itself: the keys of its
\* members, and for a key the value of its last member.
StoredKeys(text) == {text[i].k : i \in {j \in DOMAIN text : text[j].t = "member"}}

StoredValue(text, key) ==
    LET at == {i \in DOMAIN text : text[i].t = "member" /\ text[i].k = key}
    IN  text[CHOOSE i \in at : \A j \in at : j <= i].v

\* A text that is a JSON value: an object of members, or [], with
\* whitespace anywhere between the tokens.
IsJson(text) ==
    LET at == {i \in DOMAIN text : text[i] # WS}
        lo == CHOOSE i \in at : \A j \in at : i <= j
        hi == CHOOSE i \in at : \A j \in at : j <= i
    IN  /\ at # {}
        /\ lo < hi
        /\ \/ /\ text[lo] = LBRACE /\ text[hi] = RBRACE
              /\ \A i \in at \ {lo, hi} : text[i].t = "member"
           \/ /\ text[lo] = LBRACKET /\ text[hi] = RBRACKET
              /\ at = {lo, hi}

GeneratedSecrets == {Str(_generate_password(s)) : s \in BootSeeds}

\* C6: after every successful init, a user configured in every successful
\* init so far has the secret the first successful init gave it; and when the
\* configured users are those of the previous successful init, self.passwords
\* and the text of the file are those of that init.
C6_SecretsSurviveRestarts ==
    pc = "done" =>
        /\ \A u \in always :
              /\ u \in DictKeys(passwords) \cap DictKeys(first.passwords)
              /\ DictGet(passwords, u) = DictGet(first.passwords, u)
        /\ (prev.set /\ prev.users = get_users(conf_users))
              => (passwords = prev.passwords /\ file.text = prev.text)

C6_Witness ==
    /\ pc = "done" /\ runs = MaxRuns /\ prev.set
    /\ conf_users = <<<<"carol", "user">>, <<"alice", "admin">>>>
    /\ prev.users = get_users(conf_users)
    /\ always = {"alice", "carol"}
    /\ Len(DictGet(passwords, "carol").str) = 16
    /\ passwords = first.passwords

\* C7: after a successful init on the file P found at its start (no file:
\* the empty store) and the configured users U, self.passwords has exactly
\* the usernames of U as keys, each once; a username of P and U has P's
\* value; a username of P outside U has no entry; a username of U outside P
\* has a generated secret; and the file holds exactly json.dumps of
\* self.passwords, which parses back to self.passwords.
C7_Reconciliation ==
    pc = "done" =>
        LET P == old_file.text
            U == ConfiguredUsernames
        IN  /\ DictKeys(passwords) = U
            /\ Len(passwords) = Cardinality(U)
            /\ \A u \in U \cap StoredKeys(P) : DictGet(passwords, u) = StoredValue(P, u)
            /\ \A u \in StoredKeys(P) \ U : u \notin DictKeys(passwords)
            /\ \A u \in U \ StoredKeys(P) : DictGet(passwords, u) \in GeneratedSecrets
            /\ file = [exists |-> TRUE, text |-> json_dumps(passwords)]
            /\ StoredKeys(file.text) = U
            /\ \A u \in U : StoredValue(file.text, u) = DictGet(passwords, u)
            /\ json_loads(file.text) = [kind |-> "dict", items |-> passwords]

C7_Witness ==
    /\ pc = "done"
    /\ old_file = [exists |-> TRUE,
                   text |-> <<LBRACE, Member("alice", Str(<<"X">>)),
                              Member("bob", Str(<<"Y">>)), RBRACE>>]
    /\ conf_users = <<<<"alice", "admin">>, <<"carol", "user">>>>
    /\ DictKeys(passwords) = {"alice", "carol"}
    /\ DictGet(passwords, "alice") = Str(<<"X">>)
    /\ DictGet(passwords, "carol") \in GeneratedSecrets

\* C8: at every point of a run of init, the file is either as the run found
\* it or holds the complete new store: never an empty or cut-off text.
C8_AllOrNothingWrite ==
    \/ file = old_file
    \/ file = [exists |-> TRUE, text |-> json_dumps(passwords)]

\* C9: when the file exists and its text is no JSON value, init ends with
\* JSONDecodeError before it reconciles: self.passwords stays empty, nothing
\* is printed, and the file is left as it was.
C9_CorruptFileAborts ==
    (pc # "start" /\ old_file.exists /\ ~IsJson(old_file.text))
        => /\ pc = "failed" /\ exc = "JSONDecodeError"
           /\ passwords = <<>>
           /\ printed = <<>>
           /\ file = old_file

C9_Witness ==
    /\ pc = "failed" /\ exc = "JSONDecodeError"
    /\ old_file = [exists |-> TRUE, text |-> <<LBRACE, Member("alice", Str(<<"X">>))>>]
    /\ conf_users = <<<<"alice", "admin">>, <<"carol", "user">>>>
    /\ file = old_file

----------------------------------------------------------------------------
(* Properties of the secret generator.                                     *)

Digits2To9 == {"2", "3", "4", "5", "6", "7", "8", "9"}

Letters == Range(ascii_lowercase) \cup Range(ascii_uppercase)

\* C10 as stated: a secret has 16 characters, all from the letters without
\* i, l, o, I, L, O and the digits 2 to 9, and that set of 54 characters is
\* exactly what the generator draws from.
C10_Alphabet54 ==
    secret # <<>> =>
        LET claimed == (Letters \ {"i", "l", "o", "I", "L", "O"}) \cup Digits2To9
        IN  /\ Len(secret) = 16
            /\ Range(secret) \subseteq claimed
            /\ Cardinality(claimed) = 54
            /\ Range(PasswordAlphabet) = claimed

\* C10 amended: a secret has 16 characters, and the set the generator draws
\* from is exactly the letters without i, j, l, o, I, J, L, O and the digits
\* 2 to 9 (52 characters, each at one place of the alphabet).
C10_Alphabet52 ==
    secret # <<>> =>
        LET actual == (Letters \ {"i", "j", "l", "o", "I", "J", "L", "O"}) \cup Digits2To9
        IN  /\ Len(secret) = 16
            /\ Range(secret) \subseteq actual
            /\ Cardinality(actual) = 52
            /\ Range(PasswordAlphabet) = actual
            /\ Len(PasswordAlphabet) = 52

C10_Witness ==
    /\ Len(secret) = 16
    /\ secret[16] = "9"
    /\ "a" \in Range(secret)
    /\ Cardinality(Range(secret)) > 8

====
